---- MODULE Spec2Model ----
(***************************************************************************)
(* Daily study-plan generator of MBA-Study-Notes: the full variant         *)
(* (.scripts/auto_daily_plan.py, prompt-and-delegate) and the minimal      *)
(* variant (community/scripts/auto_daily_plan_min.py, template render).    *)
(*                                                                         *)
(* Dates are proleptic Gregorian ordinals (date.toordinal()); texts that   *)
(* a regular expression inspects character by character (file names, the  *)
(* generated text) are sequences of one-character strings; a plan text is  *)
(* a sequence of lines.                                                    *)
(***************************************************************************)
EXTENDS Integers, Sequences, FiniteSets, TLC

VARIABLES
    errorRoot,   \* the error-item repository: [exists, entries]
    scanOut,     \* last call of scan_due_error_reviews: [st, today, cfg, counts]
    phaseIn,     \* input of the phase resolvers: [phases, today]
    phaseOut,    \* their results: [st, full, min]
    statsIn,     \* prior-day plan text handed to the stats extractors
    statsOut,    \* their results
    planDir,     \* the plan directory: [exists, files]
    clock,       \* the calendar day, as date.today() gives it
    proc,        \* the invocations: one record of locals per process
    hist,        \* history of the runs (observation only, never read by the code)
    allocIn,     \* input of the time-block allocator: [allocation, templates]
    allocOut     \* its results: [st, subjects, again, blocks]

scanVars == <<errorRoot, scanOut>>
phaseVars == <<phaseIn, phaseOut>>
statsVars == <<statsIn, statsOut>>
runVars == <<planDir, clock, proc, hist>>
allocVars == <<allocIn, allocOut>>
vars == <<scanVars, phaseVars, statsVars, runVars, allocVars>>

(***************************************************************************)
(* Generic helpers                                                         *)
(***************************************************************************)
Range(s) == {s[i] : i \in 1..Len(s)}

Digits == {"0", "1", "2", "3", "4", "5", "6", "7", "8", "9"}

DigitVal(c) ==
    CASE c = "0" -> 0 [] c = "1" -> 1 [] c = "2" -> 2 [] c = "3" -> 3
      [] c = "4" -> 4 [] c = "5" -> 5 [] c = "6" -> 6 [] c = "7" -> 7
      [] c = "8" -> 8 [] c = "9" -> 9

\* str.lower() on one character (the letters the sampled names use)
LowerChar(c) ==
    CASE c = "H" -> "h" [] c = "I" -> "i" [] c = "G" -> "g"
      [] c = "P" -> "p" [] c = "N" -> "n"
      [] OTHER -> c

Lower(s) == [i \in 1..Len(s) |-> LowerChar(s[i])]

\* keyword in s (substring test)
Contains(s, k) ==
    \E i \in 1..(Len(s) - Len(k) + 1) : \A j \in 1..Len(k) : s[i + j - 1] = k[j]

(***************************************************************************)
(* datetime.date: validity and ordinal                                     *)
(***************************************************************************)
IsLeap(y) == (y % 4 = 0) /\ ((y % 100 # 0) \/ (y % 400 = 0))

DaysInMonth(y, m) ==
    CASE m \in {1, 3, 5, 7, 8, 10, 12} -> 31
      [] m \in {4, 6, 9, 11} -> 30
      [] m = 2 -> IF IsLeap(y) THEN 29 ELSE 28

\* date(y, m, d) raises ValueError unless this holds
ValidDate(y, m, d) ==
    /\ y >= 1 /\ y <= 9999
    /\ m >= 1 /\ m <= 12
    /\ d >= 1 /\ d <= DaysInMonth(y, m)

RECURSIVE DaysBeforeMonth(_, _)
DaysBeforeMonth(y, m) ==
    IF m <= 1 THEN 0 ELSE DaysInMonth(y, m - 1) + DaysBeforeMonth(y, m - 1)

DaysBeforeYear(y) ==
    LET p == y - 1 IN p * 365 + (p \div 4) - (p \div 100) + (p \div 400)

ToOrdinal(y, m, d) == DaysBeforeYear(y) + DaysBeforeMonth(y, m) + d

\* date.weekday(): Monday is 0
Weekday(ord) == (ord + 6) % 7

(***************************************************************************)
(* Due-review scanner (full variant)                                       *)
(***************************************************************************)
NoDate == -1

\* DATE_IN_FILENAME_RE = (20\d{2})(\d{2})(\d{2}) matches at position i
DateMatchAt(s, i) ==
    /\ i + 7 <= Len(s)
    /\ s[i] = "2" /\ s[i + 1] = "0"
    /\ \A j \in 2..7 : s[i + j] \in Digits

Num2(s, i) == 10 * DigitVal(s[i]) + DigitVal(s[i + 1])

\* extract_date_from_filename with the day checked against 31 only
extract_date_from_filename_Day31(file_name) ==
    IF ~\E i \in 1..Len(file_name) : DateMatchAt(file_name, i)
    THEN NoDate
    ELSE LET i == CHOOSE k \in 1..Len(file_name) :
                    /\ DateMatchAt(file_name, k)
                    /\ \A l \in 1..(k - 1) : ~DateMatchAt(file_name, l)
             y == 100 * Num2(file_name, i) + Num2(file_name, i + 2)
             m == Num2(file_name, i + 4)
             d == Num2(file_name, i + 6)
         IN IF m \in 1..12 /\ d \in 1..31 THEN ToOrdinal(y, m, d) ELSE NoDate

\* extract_date_from_filename: re.search takes the leftmost match only;
\* an invalid calendar date gives None (NoDate)
extract_date_from_filename(file_name) ==
    IF ~\E i \in 1..Len(file_name) : DateMatchAt(file_name, i)
    THEN NoDate
    ELSE LET i == CHOOSE k \in 1..Len(file_name) :
                    /\ DateMatchAt(file_name, k)
                    /\ \A l \in 1..(k - 1) : ~DateMatchAt(file_name, l)
             y == 100 * Num2(file_name, i) + Num2(file_name, i + 2)
             m == Num2(file_name, i + 4)
             d == Num2(file_name, i + 6)
         IN IF ValidDate(y, m, d) THEN ToOrdinal(y, m, d) ELSE NoDate

\* a CJK character is written as its code point: "U+96BE" is one character
HIGH_SEVERITY_KEYWORDS ==
    { <<"h", "i", "g", "h">>, <<"U+9AD8", "U+9891">>, <<"U+91CD", "U+9519">>,
      <<"U+96BE">> }

choose_interval_type(file_name) ==
    LET lowered == Lower(file_name)
    IN IF \E keyword \in HIGH_SEVERITY_KEYWORDS : Contains(lowered, keyword)
       THEN "high" ELSE "low"

\* intervals_cfg.get(key, [])
CfgGet(intervals_cfg, key) ==
    IF key \in DOMAIN intervals_cfg THEN intervals_cfg[key] ELSE {}

\* DueChapter with the future-date test off by one (>= for >)
DueChapter_SkipsToday(image_path, intervals_cfg, today) ==
    LET occurred_on == extract_date_from_filename(image_path.name)
        interval_type == choose_interval_type(image_path.name)
        intervals == IF interval_type = "high" THEN CfgGet(intervals_cfg, "high")
                     ELSE CfgGet(intervals_cfg, "low")
    IN IF ~image_path.isFile THEN 0
       ELSE IF occurred_on = NoDate \/ occurred_on >= today THEN 0
       ELSE IF (today - occurred_on) \notin intervals THEN 0
       ELSE image_path.cat

\* one iteration of the for loop: the chapter to count, or 0 for `continue`
DueChapter(image_path, intervals_cfg, today) ==
    LET occurred_on == extract_date_from_filename(image_path.name)
        delta_days == today - occurred_on
        interval_type == choose_interval_type(image_path.name)
        intervals == IF interval_type = "high" THEN CfgGet(intervals_cfg, "high")
                     ELSE CfgGet(intervals_cfg, "low")
    IN IF ~image_path.isFile THEN 0
       ELSE IF occurred_on = NoDate \/ occurred_on > today THEN 0
       ELSE IF delta_days \notin intervals THEN 0
       ELSE image_path.cat

\* the loop over error_root.glob("*/images/*"); due_counts is a dict
\* (a function on the chapters seen so far).  The visiting order does not
\* reach the result: the dict is re-sorted by key on return.
RECURSIVE ScanLoop(_, _, _, _)
ScanLoop(paths, intervals_cfg, today, due_counts) ==
    IF paths = {} THEN due_counts
    ELSE LET image_path == CHOOSE p \in paths : TRUE
             chapter == DueChapter(image_path, intervals_cfg, today)
             next == IF chapter = 0 THEN due_counts
                     ELSE IF chapter \in DOMAIN due_counts
                          THEN [due_counts EXCEPT ![chapter] = @ + 1]
                          ELSE [c \in DOMAIN due_counts \cup {chapter} |->
                                   IF c = chapter THEN 1 ELSE due_counts[c]]
         IN ScanLoop(paths \ {image_path}, intervals_cfg, today, next)

EmptyDict == [c \in {} |-> 0]

\* dict(sorted(due_counts.items())): the items as a sequence in key order
RECURSIVE SortedItems(_)
SortedItems(d) ==
    IF DOMAIN d = {} THEN <<>>
    ELSE LET k == CHOOSE c \in DOMAIN d : \A c2 \in DOMAIN d : c <= c2
         IN <<[chapter |-> k, count |-> d[k]]>>
            \o SortedItems([c \in DOMAIN d \ {k} |-> d[c]])

scan_due_error_reviews(error_root, intervals_cfg, today) ==
    IF ~error_root.exists THEN <<>>
    ELSE SortedItems(ScanLoop(error_root.entries, intervals_cfg, today, EmptyDict))

(***************************************************************************)
(* Phase resolvers.  A phase is [id, name, start, end, allocation]; start   *)
(* and end are the parsed dates.  A result is [raised, item].              *)
(***************************************************************************)
NoItem == [id |-> 0, name |-> "", start |-> 0, end |-> 0, allocation |-> <<>>]
Raised == [raised |-> TRUE, item |-> NoItem]
Returned(item) == [raised |-> FALSE, item |-> item]

\* list.sort(key=lambda x: x[0]): stable, ascending by start
RECURSIVE InsertByStart(_, _)
InsertByStart(sorted, x) ==
    IF sorted = <<>> THEN <<x>>
    ELSE IF Head(sorted).start <= x.start
         THEN <<Head(sorted)>> \o InsertByStart(Tail(sorted), x)
         ELSE <<x>> \o sorted

RECURSIVE SortByStart(_)
SortByStart(parsed) ==
    IF parsed = <<>> THEN <<>>
    ELSE InsertByStart(SortByStart(SubSeq(parsed, 1, Len(parsed) - 1)),
                       parsed[Len(parsed)])

\* the linear scan: the first index whose range holds today, 0 if none
FirstCovering(today, phases) ==
    IF \E i \in 1..Len(phases) : phases[i].start <= today /\ today <= phases[i].end
    THEN CHOOSE i \in 1..Len(phases) :
            /\ phases[i].start <= today /\ today <= phases[i].end
            /\ \A j \in 1..(i - 1) : ~(phases[j].start <= today /\ today <= phases[j].end)
    ELSE 0

\* determine_phase with the sort done before the scan
determine_phase_SortFirst(today, phases) ==
    IF phases = <<>> THEN Raised
    ELSE LET parsed == SortByStart(phases)
             hit == FirstCovering(today, parsed)
         IN IF hit # 0 THEN Returned(parsed[hit])
            ELSE IF today < parsed[1].start THEN Returned(parsed[1])
            ELSE Returned(parsed[Len(parsed)])

\* determine_phase (full variant)
determine_phase(today, phases) ==
    IF phases = <<>> THEN Raised
    ELSE LET hit == FirstCovering(today, phases)
             parsed == SortByStart(phases)
         IN IF hit # 0 THEN Returned(phases[hit])
            ELSE IF today < parsed[1].start THEN Returned(parsed[1])
            ELSE Returned(parsed[Len(parsed)])

\* choose_phase (minimal variant)
choose_phase(today, phases) ==
    IF phases = <<>> THEN Raised
    ELSE LET hit == FirstCovering(today, phases)
         IN IF hit # 0 THEN Returned(phases[hit])
            ELSE Returned(phases[Len(phases)])

(***************************************************************************)
(* Prior-day stats extractors.  A plan text is a sequence of lines         *)
(* [mark, rest]: mark says which checkbox the line starts with at column 0 *)
(* ("todo" for "- [ ]", "done" for "- [x]", "doneUpper" for "- [X]",       *)
(* "none" for any other line) and rest is what follows the checkbox (the   *)
(* whole line when there is none): "" for nothing, " " for white space     *)
(* only, otherwise the text without its surrounding white space.           *)
(***************************************************************************)
TodoMarks == {"todo"}
DoneMarks == {"done", "doneUpper"}

IsBlank(str) == str \in {"", " "}

\* str.strip()
Strip(str) == IF str = " " THEN "" ELSE str

Prefix(mark) ==
    CASE mark = "todo" -> "- [ ]"
      [] mark = "done" -> "- [x]"
      [] mark = "doneUpper" -> "- [X]"
      [] OTHER -> ""

\* the characters of a line
LineStr(line) ==
    IF line.mark = "none" THEN line.rest
    ELSE IF line.rest = "" THEN Prefix(line.mark)
    ELSE IF line.rest = " " THEN Prefix(line.mark) \o " "
    ELSE Prefix(line.mark) \o " " \o line.rest

\* In ^- \[.\]\s*(.+)$ the \s* also runs over line ends.  For a match that
\* starts with the checkbox of line i: line k holds a character that is not
\* white space at or after the point \s* reaches
NonSpaceAt(text, i, k) ==
    IF k = i THEN ~IsBlank(text[i].rest)
    ELSE ~(text[k].mark = "none" /\ IsBlank(text[k].rest))

\* ... and line k holds white space that (.+) can fall back on
SpaceAt(text, i, k) ==
    text[k].rest = " " /\ (k = i \/ text[k].mark = "none")

\* pattern.findall(text) from line i on: the captured groups, in order
RECURSIVE FindAllFrom(_, _, _)
FindAllFrom(text, marks, i) ==
    IF i > Len(text) THEN <<>>
    ELSE IF text[i].mark \notin marks THEN FindAllFrom(text, marks, i + 1)
    ELSE IF \E k \in i..Len(text) : NonSpaceAt(text, i, k)
    THEN LET k == CHOOSE k1 \in i..Len(text) :
                     /\ NonSpaceAt(text, i, k1)
                     /\ \A k2 \in i..(k1 - 1) : ~NonSpaceAt(text, i, k2)
             group == IF k = i THEN text[i].rest ELSE LineStr(text[k])
         IN <<group>> \o FindAllFrom(text, marks, k + 1)
    ELSE IF \E k \in i..Len(text) : SpaceAt(text, i, k)
    THEN LET k == CHOOSE k1 \in i..Len(text) :
                     /\ SpaceAt(text, i, k1)
                     /\ \A k2 \in (k1 + 1)..Len(text) : ~SpaceAt(text, i, k2)
         IN <<" ">> \o FindAllFrom(text, marks, k + 1)
    ELSE FindAllFrom(text, marks, i + 1)

FindAll(text, marks) == FindAllFrom(text, marks, 1)

\* [line.strip() for line in matches if line.strip()]
RECURSIVE StripNonEmpty(_)
StripNonEmpty(matches) ==
    IF matches = <<>> THEN <<>>
    ELSE IF Strip(Head(matches)) # ""
         THEN <<Strip(Head(matches))>> \o StripNonEmpty(Tail(matches))
         ELSE StripNonEmpty(Tail(matches))

\* a completion rate is the quotient num/den of a float division
Rate(completed, total) ==
    IF total # 0 THEN [num |-> completed, den |-> total] ELSE [num |-> 0, den |-> 1]

\* list[:limit]
Slice(list, limit) ==
    IF limit >= 0
    THEN SubSeq(list, 1, IF limit < Len(list) THEN limit ELSE Len(list))
    ELSE SubSeq(list, 1, Len(list) + limit)

NO_FILE_TASK == "no plan file for yesterday, or no tasks recorded"
NO_TASK == "none"

\* parse_yesterday_stats (full variant); file is [exists, text]
parse_yesterday_stats(file) ==
    IF ~file.exists
    THEN [completed |-> 0, pending |-> 0, completion_rate |-> Rate(0, 0),
          unfinished_tasks |-> <<NO_FILE_TASK>>]
    ELSE LET done_matches == FindAll(file.text, DoneMarks)
             todo_matches == FindAll(file.text, TodoMarks)
             completed == Len(done_matches)
             pending == Len(todo_matches)
             unfinished == StripNonEmpty(todo_matches)
         IN [completed |-> completed, pending |-> pending,
             completion_rate |-> Rate(completed, completed + pending),
             unfinished_tasks |-> IF unfinished = <<>> THEN <<NO_TASK>> ELSE unfinished]

\* parse_yesterday_stats (minimal variant)
parse_yesterday_stats_min(file, carry_limit) ==
    IF ~file.exists
    THEN [carry |-> <<>>, completion_rate |-> Rate(0, 0)]
    ELSE LET todo == StripNonEmpty(FindAll(file.text, TodoMarks))
             done == FindAll(file.text, DoneMarks)
             total == Len(todo) + Len(done)
         IN [carry |-> Slice(todo, carry_limit),
             completion_rate |-> Rate(Len(done), total)]

(***************************************************************************)
(* Formatting                                                              *)
(***************************************************************************)
DigitStr(d) ==
    CASE d = 0 -> "0" [] d = 1 -> "1" [] d = 2 -> "2" [] d = 3 -> "3"
      [] d = 4 -> "4" [] d = 5 -> "5" [] d = 6 -> "6" [] d = 7 -> "7"
      [] d = 8 -> "8" [] d = 9 -> "9"

\* str(n) for n >= 0
RECURSIVE IntStr(_)
IntStr(n) == IF n < 10 THEN DigitStr(n) ELSE IntStr(n \div 10) \o DigitStr(n % 10)

\* %02d
Pad2(n) == IF n < 10 THEN "0" \o DigitStr(n) ELSE IntStr(n)

\* %04d for the years in use
Pad4(n) == IF n < 1000 THEN "0" \o IntStr(n) ELSE IntStr(n)

\* date.fromordinal
YearOf(ord) ==
    CHOOSE y \in (ord \div 366)..(ord \div 365 + 1) : DaysBeforeYear(y) < ord /\ ord <= DaysBeforeYear(y + 1)
MonthOf(ord) ==
    LET y == YearOf(ord)
        n == ord - DaysBeforeYear(y)
    IN CHOOSE m \in 1..12 :
          DaysBeforeMonth(y, m) < n /\ n <= DaysBeforeMonth(y, m) + DaysInMonth(y, m)
DayOf(ord) ==
    LET y == YearOf(ord) IN ord - DaysBeforeYear(y) - DaysBeforeMonth(y, MonthOf(ord))

\* date.isoformat()
IsoFormat(ord) ==
    Pad4(YearOf(ord)) \o "-" \o Pad2(MonthOf(ord)) \o "-" \o Pad2(DayOf(ord))

\* date.strftime('%m.%d')
MonthDotDay(ord) == Pad2(MonthOf(ord)) \o "." \o Pad2(DayOf(ord))

\* f"{rate:.1%}": the rate in tenths of a percent, ties to even
PerMille(rate) ==
    LET q == (rate.num * 1000) \div rate.den
        r == (rate.num * 1000) % rate.den
    IN IF 2 * r > rate.den THEN q + 1
       ELSE IF 2 * r = rate.den /\ q % 2 = 1 THEN q + 1
       ELSE q

Percent1(rate) ==
    LET pm == PerMille(rate) IN IntStr(pm \div 10) \o "." \o DigitStr(pm % 10) \o "%"

\* f"{value:.0%}" for a weight given in hundredths
Percent0(weight) == IntStr(weight) \o "%"

(***************************************************************************)
(* Configuration.  Chinese text is written in ASCII: the default weekday   *)
(* names are "Zhou1" .. "ZhouRi", subject labels and fixed phrases are     *)
(* given by their meaning.                                                 *)
(***************************************************************************)
DEFAULT_WEEKDAY_NAMES ==
    <<"Zhou1", "Zhou2", "Zhou3", "Zhou4", "Zhou5", "Zhou6", "ZhouRi">>

\* get_weekday_name; weekday_names = <<>> stands for None or an absent key
get_weekday_name(today, weekday_names) ==
    LET names == IF weekday_names = <<>> THEN DEFAULT_WEEKDAY_NAMES ELSE weekday_names
    IN names[Weekday(today) + 1]

SUBJECT_LABEL_KEYS == {"math", "major", "english", "politics", "review"}

SUBJECT_LABEL(key) ==
    CASE key = "math" -> "Math"
      [] key = "major" -> "Major"
      [] key = "english" -> "English"
      [] key = "politics" -> "Politics"
      [] key = "review" -> "Review"

SUBJECT_EMOJI(key) ==
    CASE key = "math" -> "(abacus)"
      [] key = "major" -> "(antenna)"
      [] key = "english" -> "(memo)"
      [] key = "politics" -> "(books)"
      [] key = "review" -> "(chart)"

TIME_BLOCKS ==
    << <<"08:00", "10:00">>, <<"10:20", "12:00">>, <<"14:00", "16:00">>,
       <<"16:20", "18:00">>, <<"19:00", "21:00">>, <<"21:10", "21:40">> >>

(***************************************************************************)
(* Time-block allocator (minimal variant).  An allocation is the sequence  *)
(* of the dict's items [key, weight] in insertion order, weights in        *)
(* hundredths.                                                             *)
(***************************************************************************)
\* InsertByWeight with a later item put ahead of the items of equal weight
RECURSIVE InsertByWeight_TiesFirst(_, _)
InsertByWeight_TiesFirst(sorted, x) ==
    IF sorted = <<>> THEN <<x>>
    ELSE IF Head(sorted).weight > x.weight
         THEN <<Head(sorted)>> \o InsertByWeight_TiesFirst(Tail(sorted), x)
         ELSE <<x>> \o sorted

\* sorted(..., key=weight, reverse=True): stable, descending
RECURSIVE InsertByWeight(_, _)
InsertByWeight(sorted, x) ==
    IF sorted = <<>> THEN <<x>>
    ELSE IF Head(sorted).weight >= x.weight
         THEN <<Head(sorted)>> \o InsertByWeight(Tail(sorted), x)
         ELSE <<x>> \o sorted

RECURSIVE SortByWeight(_)
SortByWeight(items) ==
    IF items = <<>> THEN <<>>
    ELSE InsertByWeight(SortByWeight(SubSeq(items, 1, Len(items) - 1)),
                        items[Len(items)])

RECURSIVE KnownKeys(_)
KnownKeys(pairs) ==
    IF pairs = <<>> THEN <<>>
    ELSE IF Head(pairs).key \in SUBJECT_LABEL_KEYS
         THEN <<Head(pairs).key>> \o KnownKeys(Tail(pairs))
         ELSE KnownKeys(Tail(pairs))

build_subject_sequence(allocation) ==
    LET subjects == KnownKeys(SortByWeight(allocation))
    IN IF subjects = <<>> THEN <<"math", "major", "english", "review">> ELSE subjects

\* templates.get(subject, f"{label} key task"); templates is a function
TemplateOf(templates, subject) ==
    IF subject \in DOMAIN templates THEN templates[subject]
    ELSE SUBJECT_LABEL(subject) \o " key task"

\* build_plan_blocks with the last window treated like the others
build_plan_blocks_RoundRobin(allocation, templates) ==
    LET subjects == build_subject_sequence(allocation)
    IN [i \in 1..Len(TIME_BLOCKS) |->
          LET subject == subjects[((i - 1) % Len(subjects)) + 1]
          IN [start |-> TIME_BLOCKS[i][1], end |-> TIME_BLOCKS[i][2],
              emoji |-> SUBJECT_EMOJI(subject), label |-> SUBJECT_LABEL(subject),
              task |-> TemplateOf(templates, subject)]]

build_plan_blocks(allocation, templates) ==
    LET subjects == build_subject_sequence(allocation)
    IN [i \in 1..Len(TIME_BLOCKS) |->
          LET idx == i - 1
              subject == IF idx = Len(TIME_BLOCKS) - 1 /\ "review" \in Range(subjects)
                         THEN "review"
                         ELSE subjects[(idx % Len(subjects)) + 1]
          IN [start |-> TIME_BLOCKS[i][1], end |-> TIME_BLOCKS[i][2],
              emoji |-> SUBJECT_EMOJI(subject), label |-> SUBJECT_LABEL(subject),
              task |-> TemplateOf(templates, subject)]]

(***************************************************************************)
(* Plan assembly.  A document is a sequence of lines [mark, rest].         *)
(***************************************************************************)
Plain(str) == [mark |-> "none", rest |-> str]
Todo(str) == [mark |-> "todo", rest |-> str]

NO_CARRY_TASK == "no unfinished task from yesterday"

\* the file name without ".md"
Stem(day, weekday_name) == IsoFormat(day) \o " " \o weekday_name

RateLine(rate) == Plain("- yesterday's completion rate: " \o Percent1(rate))

\* the names of the category directories 1, 2 (in name order)
ChapterName(chapter) ==
    CASE chapter = 1 -> "Derivatives" [] chapter = 2 -> "Limits"
      [] OTHER -> "Chapter" \o IntStr(chapter)

\* a line of the due-review list: "- <chapter>: <count> items"
ReviewLine(chapter, count) ==
    Plain("- " \o ChapterName(chapter) \o ": " \o IntStr(count) \o " items")

\* render_markdown (minimal variant)
render_markdown(today, weekday_name, phase, carry_tasks, yesterday_rate, blocks) ==
    LET prev_day == today - 1
        next_day == today + 1
        prev_label == Stem(prev_day, get_weekday_name(prev_day, <<>>))
        next_label == Stem(next_day, get_weekday_name(next_day, <<>>))
        carry_lines == IF carry_tasks # <<>>
                       THEN [i \in 1..Len(carry_tasks) |-> Todo(carry_tasks[i])]
                       ELSE <<Todo(NO_CARRY_TASK)>>
        block_lines == [i \in 1..Len(blocks) |->
                           Todo(blocks[i].start \o " - " \o blocks[i].end \o " | "
                                \o blocks[i].emoji \o " " \o blocks[i].label \o " | "
                                \o blocks[i].task)]
    IN << Plain("---"),
          Plain("date: " \o IsoFormat(today)),
          Plain("weekday: " \o weekday_name),
          Plain("phase: \"Phase " \o IntStr(phase.id) \o " - " \o phase.name \o "\""),
          Plain("type: daily-plan"),
          Plain("status: pending"),
          Plain("tags:"),
          Plain("- kaoyan"),
          Plain("- daily-plan"),
          Plain("---"),
          Plain(""),
          Plain("# (memo) " \o MonthDotDay(today) \o " " \o weekday_name
                \o " - community study plan"),
          Plain(""),
          Plain("> [!tip] focus of the day"),
          Plain("> math and major first, review and collect errors in the evening"),
          Plain(""),
          Plain("## carried over from yesterday"),
          RateLine(yesterday_rate) >>
       \o carry_lines
       \o << Plain(""), Plain("## time blocks") >>
       \o block_lines
       \o << Plain(""),
             Plain("## evening review"),
             Plain("| metric | plan | actual |"),
             Plain("| --- | --- | --- |"),
             Plain("| completion | >= 80% | |"),
             Plain("| math focus time | >= 3h | |"),
             Plain("| new errors today | <= 5 | |"),
             Plain(""),
             Plain("## links"),
             Plain("- previous day: [[" \o prev_label \o "]]"),
             Plain("- next day: [[" \o next_label \o "]]") >>

\* format_allocation (full variant): "<label> <weight>" per item
SubjectName(key) ==
    CASE key = "math" -> "Math"
      [] key = "major" -> "Major"
      [] key = "english" -> "English"
      [] key = "competition" -> "Competition"
      [] key = "politics" -> "Politics"
      [] key = "review" -> "Review"
      [] OTHER -> key

RECURSIVE JoinParts(_)
JoinParts(parts) ==
    IF parts = <<>> THEN ""
    ELSE IF Len(parts) = 1 THEN parts[1]
    ELSE parts[1] \o ", " \o JoinParts(Tail(parts))

format_allocation(allocation) ==
    JoinParts([i \in 1..Len(allocation) |->
                  SubjectName(allocation[i].key) \o " " \o Percent0(allocation[i].weight)])

\* build_prompt without the due counts
build_prompt_NoReview(today, weekday_name, phase, allocation_desc, yesterday_stats, due_counts, milestones) ==
    << Plain("- date: " \o IsoFormat(today)),
       Plain("- weekday: " \o weekday_name),
       Plain("- completion rate: " \o Percent1(yesterday_stats.completion_rate)) >>

\* build_prompt (full variant): the lines that carry the inputs; the fixed
\* instructions around them are left out
build_prompt(today, weekday_name, phase, allocation_desc, yesterday_stats, due_counts, milestones) ==
    LET tasks == Slice(yesterday_stats.unfinished_tasks, 20)
        incomplete_text == IF tasks = <<>> THEN <<Plain("- none")>>
                           ELSE [i \in 1..Len(tasks) |-> Plain("- " \o tasks[i])]
        review_text == IF due_counts # <<>>
                       THEN [i \in 1..Len(due_counts) |->
                               ReviewLine(due_counts[i].chapter, due_counts[i].count)]
                       ELSE <<Plain("- no error item hits an interval today")>>
        milestone_text == IF milestones # <<>>
                          THEN [i \in 1..Len(milestones) |-> Plain("- " \o milestones[i])]
                          ELSE <<Plain("- no milestone configured for this month")>>
    IN << Plain("- date: " \o IsoFormat(today)),
          Plain("- weekday: " \o weekday_name),
          Plain("- phase: Phase " \o IntStr(phase.id) \o " - " \o phase.name),
          Plain("- allocation: " \o allocation_desc),
          Plain("- completed: " \o IntStr(yesterday_stats.completed)),
          Plain("- pending: " \o IntStr(yesterday_stats.pending)),
          Plain("- completion rate: " \o Percent1(yesterday_stats.completion_rate)),
          Plain("- unfinished tasks:") >>
       \o incomplete_text
       \o <<Plain("errors due for review today (by chapter):")>>
       \o review_text
       \o <<Plain("milestones of the month:")>>
       \o milestone_text

\* str.strip() of a generated text: white space (blank lines included) goes
\* from both ends
RECURSIVE LStripLines(_)
LStripLines(text) ==
    IF text = <<>> THEN <<>>
    ELSE IF Head(text).mark = "none" /\ IsBlank(Head(text).rest)
         THEN LStripLines(Tail(text))
         ELSE text

RECURSIVE RStripLines(_)
RStripLines(text) ==
    IF text = <<>> THEN <<>>
    ELSE LET last == text[Len(text)]
             init == SubSeq(text, 1, Len(text) - 1)
         IN IF last.mark = "none" /\ IsBlank(last.rest) THEN RStripLines(init)
            ELSE IF last.rest = " " THEN Append(init, [last EXCEPT !.rest = ""])
            ELSE text

StripText(text) == RStripLines(LStripLines(text))

(***************************************************************************)
(* Specification SpecScan: an error-item tree is built entry by entry and  *)
(* scanned once.                                                           *)
(***************************************************************************)
MaxEntries == 2

\* chapters (category directories) by rank in name order; 0 is no chapter
Chapters == {1, 2}

\* 20250101.png: low item of 2025-01-01
Name1 == <<"2", "0", "2", "5", "0", "1", "0", "1", ".", "p", "n", "g">>

\* HIGH_20250105.png: high by keyword after lower()
Name2 == <<"H", "I", "G", "H", "_", "2", "0", "2", "5", "0", "1", "0", "5", ".", "p", "n", "g">>

\* U+96BE 20250101: high by a CJK keyword
Name3 == <<"U+96BE", "2", "0", "2", "5", "0", "1", "0", "1">>

\* 20250230.png: no such calendar day
Name4 == <<"2", "0", "2", "5", "0", "2", "3", "0", ".", "p", "n", "g">>

\* 20251301_20250101: leftmost match is invalid, a later valid one is not tried
Name5 == <<"2", "0", "2", "5", "1", "3", "0", "1", "_", "2", "0", "2", "5", "0", "1", "0", "1">>

\* 120250101: match at offset 1
Name6 == <<"1", "2", "0", "2", "5", "0", "1", "0", "1">>

\* note.png: no date
Name7 == <<"n", "o", "t", "e", ".", "p", "n", "g">>

\* 20250109.png: one day after the first target date
Name8 == <<"2", "0", "2", "5", "0", "1", "0", "9", ".", "p", "n", "g">>

\* 20250108hi: the target date itself, 'hi' is no keyword
Name9 == <<"2", "0", "2", "5", "0", "1", "0", "8", "h", "i">>

SampleNames == {Name1, Name2, Name3, Name4, Name5, Name6, Name7, Name8, Name9}

\* directories under <category>/images/ (glob returns them, is_file() drops them)
SampleDirNames == {Name1}

SampleIntervals ==
    { [low |-> {3, 7}, high |-> {3}],
      [low |-> {0, 7}],
      [high |-> {7, 8}] }

SampleTodays == {ToOrdinal(2025, 1, 8), ToOrdinal(2025, 1, 4), ToOrdinal(2025, 3, 2)}

NoRoot == [exists |-> FALSE, entries |-> {}]
NoScan == [st |-> "none", today |-> 0, cfg |-> [low |-> {}], root |-> NoRoot, counts |-> <<>>]
NoPhaseIn == [phases |-> <<>>, today |-> 0]
NoPhaseOut == [st |-> "none", full |-> Raised, min |-> Raised]
NoStatsIn == [exists |-> FALSE, text |-> <<>>]
NoStatsOut == [st |-> "none", limit |-> 0,
               full |-> parse_yesterday_stats(NoStatsIn),
               min |-> parse_yesterday_stats_min(NoStatsIn, 0)]
NoPlanDir == [exists |-> FALSE, files |-> <<>>]
NoProc == <<>>
NoHist == <<>>
NoAllocIn == [allocation |-> <<>>, templates |-> <<>>]
NoAllocOut == [st |-> "none", subjects |-> <<>>, again |-> <<>>, blocks |-> <<>>]

ScanIdle == /\ errorRoot = NoRoot /\ scanOut = NoScan
PhaseIdle == /\ phaseIn = NoPhaseIn /\ phaseOut = NoPhaseOut
StatsIdle == /\ statsIn = NoStatsIn /\ statsOut = NoStatsOut
RunIdle == /\ planDir = NoPlanDir /\ clock = 0 /\ proc = NoProc /\ hist = NoHist
AllocIdle == /\ allocIn = NoAllocIn /\ allocOut = NoAllocOut

InitScan == ScanIdle /\ PhaseIdle /\ StatsIdle /\ RunIdle /\ AllocIdle

CreateErrorRoot ==
    /\ scanOut.st = "none"
    /\ ~errorRoot.exists
    /\ errorRoot' = [errorRoot EXCEPT !.exists = TRUE]
    /\ UNCHANGED <<scanOut, phaseVars, statsVars, runVars, allocVars>>

AddEntry(cat, name, isFile) ==
    /\ scanOut.st = "none"
    /\ errorRoot.exists
    /\ Cardinality(errorRoot.entries) < MaxEntries
    /\ ~\E e \in errorRoot.entries : e.cat = cat /\ e.name = name
    /\ errorRoot' = [errorRoot EXCEPT !.entries =
                        @ \cup {[cat |-> cat, name |-> name, isFile |-> isFile]}]
    /\ UNCHANGED <<scanOut, phaseVars, statsVars, runVars, allocVars>>

Scan(cfg, today) ==
    /\ scanOut.st = "none"
    /\ scanOut' = [st |-> "done", today |-> today, cfg |-> cfg, root |-> errorRoot,
                   counts |-> scan_due_error_reviews(errorRoot, cfg, today)]
    /\ UNCHANGED <<errorRoot, phaseVars, statsVars, runVars, allocVars>>

NextScan ==
    \/ CreateErrorRoot
    \/ \E cat \in Chapters, name \in SampleNames : AddEntry(cat, name, TRUE)
    \/ \E cat \in Chapters, name \in SampleDirNames : AddEntry(cat, name, FALSE)
    \/ \E cfg \in SampleIntervals, today \in SampleTodays : Scan(cfg, today)

SpecScan == InitScan /\ [][NextScan]_vars

\* the count the summary holds for chapter c (0 when c is absent)
CountOf(counts, c) ==
    IF \E i \in 1..Len(counts) : counts[i].chapter = c
    THEN counts[CHOOSE i \in 1..Len(counts) : counts[i].chapter = c].count
    ELSE 0

\* the due rule as stated: a valid date d <= today whose age is in intervals[s]
DueAsStated(name, cfg, today) ==
    LET d == extract_date_from_filename(name)
        s == IF \E k \in HIGH_SEVERITY_KEYWORDS : Contains(Lower(name), k)
             THEN "high" ELSE "low"
    IN /\ d # NoDate
       /\ d <= today
       /\ (today - d) \in CfgGet(cfg, s)

DueFiles(root, c, cfg, today) ==
    {e \in root.entries : e.cat = c /\ e.isFile /\ DueAsStated(e.name, cfg, today)}

\* C1: the count returned for every category equals the number of its due
\* file entries, and a category is in the summary exactly when that number
\* is positive (each category at most once).
C1_ScanCountsExact ==
    scanOut.st = "done" =>
        /\ \A c \in Chapters :
              CountOf(scanOut.counts, c) =
                  Cardinality(DueFiles(scanOut.root, c, scanOut.cfg, scanOut.today))
        /\ \A i \in 1..Len(scanOut.counts) :
              /\ scanOut.counts[i].count > 0
              /\ scanOut.counts[i].chapter \in Chapters
              /\ \A j \in 1..Len(scanOut.counts) :
                    scanOut.counts[j].chapter = scanOut.counts[i].chapter => i = j

\* a scan that counted a high-severity file, dropped a directory entry and
\* left one category out
C1_Witness ==
    /\ scanOut.st = "done"
    /\ \E e \in scanOut.root.entries :
          /\ e.isFile /\ choose_interval_type(e.name) = "high"
          /\ DueAsStated(e.name, scanOut.cfg, scanOut.today)
    /\ \E e \in scanOut.root.entries : ~e.isFile
    /\ Len(scanOut.counts) = 1

(***************************************************************************)
(* Specification SpecPhase: a phase list is configured phase by phase, in  *)
(* any order and with any overlap, and resolved once for a date.           *)
(***************************************************************************)
MaxPhases == 3
MaxDay == 3

PhaseDays == 1..MaxDay
TargetDays == 0..(MaxDay + 1)

InitPhase == ScanIdle /\ PhaseIdle /\ StatsIdle /\ RunIdle /\ AllocIdle

AddPhase(start, end) ==
    /\ phaseOut.st = "none"
    /\ Len(phaseIn.phases) < MaxPhases
    /\ start <= end
    /\ phaseIn' = [phaseIn EXCEPT !.phases =
                      Append(@, [id |-> Len(@) + 1, name |-> "P", start |-> start, end |-> end,
                                 allocation |-> <<>>])]
    /\ UNCHANGED <<scanVars, phaseOut, statsVars, runVars, allocVars>>

Resolve(today) ==
    /\ phaseOut.st = "none"
    /\ phaseIn' = [phaseIn EXCEPT !.today = today]
    /\ phaseOut' = [st |-> "done",
                    full |-> determine_phase(today, phaseIn.phases),
                    min |-> choose_phase(today, phaseIn.phases)]
    /\ UNCHANGED <<scanVars, statsVars, runVars, allocVars>>

NextPhase ==
    \/ \E start \in PhaseDays, end \in PhaseDays : AddPhase(start, end)
    \/ \E today \in TargetDays : Resolve(today)

SpecPhase == InitPhase /\ [][NextPhase]_vars

Covers(ph, day) == ph.start <= day /\ day <= ph.end
Covered(phs, day) == \E i \in 1..Len(phs) : Covers(phs[i], day)
Overlapping(phs) ==
    \E i, j \in 1..Len(phs) :
        i # j /\ phs[i].start <= phs[j].end /\ phs[j].start <= phs[i].end

\* C2: for a date inside some phase's range both resolvers return the first
\* phase in configuration order whose range holds the date; without overlap
\* that is the only phase holding it.
C2_FirstCoveringPhase ==
    (phaseOut.st = "done" /\ Covered(phaseIn.phases, phaseIn.today)) =>
        LET phs == phaseIn.phases
            day == phaseIn.today
        IN \E i \in 1..Len(phs) :
              /\ Covers(phs[i], day)
              /\ \A j \in 1..(i - 1) : ~Covers(phs[j], day)
              /\ phaseOut.full = Returned(phs[i])
              /\ phaseOut.min = Returned(phs[i])
              /\ ~Overlapping(phs) => \A j \in 1..Len(phs) : Covers(phs[j], day) => j = i

\* the date lies in two phases and the later-starting one is configured first
C2_Witness ==
    /\ phaseOut.st = "done"
    /\ \E i, j \in 1..Len(phaseIn.phases) :
          /\ i < j
          /\ Covers(phaseIn.phases[i], phaseIn.today)
          /\ Covers(phaseIn.phases[j], phaseIn.today)
          /\ phaseIn.phases[j].start < phaseIn.phases[i].start
          /\ phaseOut.full.item.id = i

MinStart(phs) == CHOOSE v \in {phs[i].start : i \in 1..Len(phs)} :
                    \A i \in 1..Len(phs) : v <= phs[i].start
MaxEnd(phs) == CHOOSE v \in {phs[i].end : i \in 1..Len(phs)} :
                    \A i \in 1..Len(phs) : v >= phs[i].end

FallbackAsClaimed(res, phs, day) ==
    /\ ~res.raised
    /\ IF \A i \in 1..Len(phs) : day < phs[i].start
       THEN res.item.start = MinStart(phs)
       ELSE res.item.end = MaxEnd(phs)

\* C3: for a date no phase covers, both resolvers return the phase with the
\* earliest start when the date precedes every phase, and the phase with the
\* latest end otherwise.
C3_FallbackBothVariants ==
    (phaseOut.st = "done" /\ phaseIn.phases # <<>>
       /\ ~Covered(phaseIn.phases, phaseIn.today)) =>
        /\ FallbackAsClaimed(phaseOut.full, phaseIn.phases, phaseIn.today)
        /\ FallbackAsClaimed(phaseOut.min, phaseIn.phases, phaseIn.today)

(***************************************************************************)
(* Specification SpecStats: a prior-day plan text is written line by line  *)
(* (or is missing) and handed once to both stats extractors.               *)
(***************************************************************************)
MaxLines == 3

SampleMarks == {"todo", "done", "doneUpper", "none"}
SampleRests == {"", " ", "a"}
SampleLimits == {0, 1, 5}

InitStats == ScanIdle /\ PhaseIdle /\ StatsIdle /\ RunIdle /\ AllocIdle

CreatePrior ==
    /\ statsOut.st = "none"
    /\ ~statsIn.exists
    /\ statsIn' = [statsIn EXCEPT !.exists = TRUE]
    /\ UNCHANGED <<scanVars, phaseVars, statsOut, runVars, allocVars>>

AppendLine(mark, rest) ==
    /\ statsOut.st = "none"
    /\ statsIn.exists
    /\ Len(statsIn.text) < MaxLines
    /\ statsIn' = [statsIn EXCEPT !.text = Append(@, [mark |-> mark, rest |-> rest])]
    /\ UNCHANGED <<scanVars, phaseVars, statsOut, runVars, allocVars>>

Extract(carry_limit) ==
    /\ statsOut.st = "none"
    /\ statsOut' = [st |-> "done", limit |-> carry_limit,
                    full |-> parse_yesterday_stats(statsIn),
                    min |-> parse_yesterday_stats_min(statsIn, carry_limit)]
    /\ UNCHANGED <<scanVars, phaseVars, statsIn, runVars, allocVars>>

NextStats ==
    \/ CreatePrior
    \/ \E mark \in SampleMarks, rest \in SampleRests : AppendLine(mark, rest)
    \/ \E carry_limit \in SampleLimits : Extract(carry_limit)

SpecStats == InitStats /\ [][NextStats]_vars

\* a line that by itself matches "- [.] <text>" for one of the marks
LineMatches(line, marks) == line.mark \in marks /\ line.rest # ""

MatchingLines(text, marks) ==
    Cardinality({i \in 1..Len(text) : LineMatches(text[i], marks)})

SameRate(r, num, den) == r.num * den = num * r.den

\* C10: completed = number of checked-box lines, pending = number of
\* unchecked-box lines, rate = completed/(completed+pending) in both
\* variants, 0 without tasks or without a prior file, and 0 <= rate <= 1.
C10_StatsCountLines ==
    statsOut.st = "done" =>
        LET c == MatchingLines(statsIn.text, DoneMarks)
            p == MatchingLines(statsIn.text, TodoMarks)
        IN /\ statsOut.full.completed = c
           /\ statsOut.full.pending = p
           /\ IF c + p = 0
              THEN statsOut.full.completion_rate.num = 0
                   /\ statsOut.min.completion_rate.num = 0
              ELSE SameRate(statsOut.full.completion_rate, c, c + p)
                   /\ SameRate(statsOut.min.completion_rate, c, c + p)
           /\ \A r \in {statsOut.full.completion_rate, statsOut.min.completion_rate} :
                 r.den > 0 /\ 0 <= r.num /\ r.num <= r.den

(***************************************************************************)
(* The invocations.  Each process runs main() of one variant step by step; *)
(* a step is one access to the file system or to the text-generation       *)
(* service together with the local computation that precedes it.           *)
(***************************************************************************)
MaxRuns == 2
MaxConcRuns == 2
MaxTicks == 1

Day0 == ToOrdinal(2025, 1, 8)

CARRY_LIMIT_DEFAULT == 5

SampleWeekdayNames == <<"Mon", "Tue", "Wed", "Thu", "Fri", "Sat", "Sun">>

PhaseA == [id |-> 1, name |-> "Foundation", start |-> Day0 - 7, end |-> Day0 + 30,
           allocation |-> << [key |-> "math", weight |-> 40],
                             [key |-> "major", weight |-> 30],
                             [key |-> "english", weight |-> 20],
                             [key |-> "review", weight |-> 10] >>]
PhaseB == [id |-> 2, name |-> "Sprint", start |-> Day0 - 7, end |-> Day0 + 30,
           allocation |-> << [key |-> "competition", weight |-> 50],
                             [key |-> "english", weight |-> 50] >>]

\* plan_config.json as loaded: [phases, weekday_names, error_intervals,
\* subject_templates, milestones]; an absent key is its default
Config(cfg) ==
    CASE cfg = 1 -> [phases |-> <<PhaseA>>, weekday_names |-> <<>>,
                     error_intervals |-> [low |-> {3, 7}, high |-> {3}],
                     subject_templates |-> [math |-> "calculus drills"],
                     milestones |-> <<>>]
      [] cfg = 2 -> [phases |-> <<PhaseB>>, weekday_names |-> <<>>,
                     error_intervals |-> [low |-> {3, 7}, high |-> {3}],
                     subject_templates |-> [math |-> "calculus drills"],
                     milestones |-> <<"mock exam">>]
      [] cfg = 3 -> [phases |-> <<PhaseA>>, weekday_names |-> SampleWeekdayNames,
                     error_intervals |-> [low |-> {3, 7}, high |-> {3}],
                     subject_templates |-> [math |-> "calculus drills"],
                     milestones |-> <<>>]
      [] cfg = 4 -> [phases |-> <<>>, weekday_names |-> <<>>,
                     error_intervals |-> [low |-> {3, 7}, high |-> {3}],
                     subject_templates |-> [math |-> "calculus drills"],
                     milestones |-> <<>>]

SampleConfigs == 1..4

\* what the text-generation call gives: an exception or a text
SampleResponses ==
    { [raises |-> TRUE, text |-> <<>>],
      [raises |-> FALSE, text |-> <<>>],
      [raises |-> FALSE, text |-> <<Plain(" "), Plain("")>>],
      [raises |-> FALSE, text |-> <<Plain(""), Todo("a"), Plain("b"), Plain(" ")>>],
      [raises |-> FALSE, text |-> <<Todo("c")>>] }

\* the error items on disk during the runs
SampleRoot ==
    [exists |-> TRUE,
     entries |-> { [cat |-> 1, name |-> Name1, isFile |-> TRUE],
                   [cat |-> 2, name |-> Name2, isFile |-> TRUE],
                   [cat |-> 2, name |-> Name7, isFile |-> TRUE] }]

\* OutputPath with the built-in weekday names in place of the configured ones
OutputPath_DefaultLabel(today, weekday_name) ==
    [date |-> today, label |-> DEFAULT_WEEKDAY_NAMES[Weekday(today) + 1]]

\* plan_dir / f"{today.isoformat()} {weekday_name}.md", kept as its two parts
OutputPath(today, weekday_name) == [date |-> today, label |-> weekday_name]

\* output_path.exists()
PathExists(dir, path) == dir.exists /\ path \in DOMAIN dir.files

\* the order of file names that differ in the label only: ASCII first
LabelRank(label) == IF label \in Range(SampleWeekdayNames) THEN 0 ELSE 1

\* find_plan_file_for_date / find_yesterday_file: sorted(glob)[0] as the file
\* [exists, text] that is read, NoStatsIn for None
GlobDate(dir, day) ==
    IF dir.exists THEN {path \in DOMAIN dir.files : path.date = day} ELSE {}

find_plan_file_for_date(dir, target_date) ==
    LET candidates == GlobDate(dir, target_date)
    IN IF candidates = {} THEN NoStatsIn
       ELSE LET first == CHOOSE c \in candidates :
                            \A d \in candidates : LabelRank(c.label) <= LabelRank(d.label)
            IN [exists |-> TRUE, text |-> dir.files[first]]

\* Path.write_text
WriteText(dir, path, text) ==
    [dir EXCEPT !.files = [q \in DOMAIN dir.files \cup {path} |->
                              IF q = path THEN text ELSE dir.files[q]]]

\* SkipsExisting with the test left out
SkipsExisting_Never(variant, exists, force) == FALSE

\* SkipsExisting with the minimal variant always overwriting
SkipsExisting_FullOnly(variant, exists, force) == variant = "full" /\ exists

\* the existence test that ends the run early (line 358, line 187)
SkipsExisting(variant, exists, force) ==
    IF variant = "full" THEN exists ELSE exists /\ ~force

\* StepAfter with the full variant creating the directory before the call
StepAfter_MkdirBeforeCall(variant, pc) ==
    IF variant = "full"
    THEN CASE pc = "start" -> "check" [] pc = "check" -> "gather"
           [] pc = "gather" -> "mkdir" [] pc = "mkdir" -> "call"
           [] pc = "call" -> "write" [] pc = "write" -> "done"
    ELSE CASE pc = "start" -> "mkdir" [] pc = "mkdir" -> "check"
           [] pc = "check" -> "gather" [] pc = "gather" -> "write"
           [] pc = "write" -> "done"

\* the order of the steps of main()
StepAfter(variant, pc) ==
    IF variant = "full"
    THEN CASE pc = "start" -> "check" [] pc = "check" -> "gather"
           [] pc = "gather" -> "call" [] pc = "call" -> "mkdir"
           [] pc = "mkdir" -> "write" [] pc = "write" -> "done"
    ELSE CASE pc = "start" -> "mkdir" [] pc = "mkdir" -> "check"
           [] pc = "check" -> "gather" [] pc = "gather" -> "write"
           [] pc = "write" -> "done"

IdleProc == [pc |-> "idle", variant |-> "min", cfg |-> 1, force |-> FALSE,
             today |-> 0, weekday_name |-> "", phase |-> Raised,
             prompt |-> <<>>, content |-> <<>>, exit |-> -1]

\* what is recorded about the current run of a process
NoRun == [n |-> 0, existed |-> FALSE, target |-> OutputPath(0, ""), trace |-> <<>>,
          atCheck |-> -1, calls |-> 0, aiFailed |-> FALSE, wrote |-> FALSE,
          madeDir |-> FALSE, prior |-> NoStatsIn, carry |-> <<>>, rate |-> Rate(0, 0)]

Procs == DOMAIN proc

Exit(p, code) == [proc[p] EXCEPT !.pc = "done", !.exit = code]

Writes(path) == IF path \in DOMAIN hist.w THEN hist.w[path] ELSE <<>>

Step(p, kind) == [hist.run[p] EXCEPT !.trace = Append(@, kind)]

\* main() up to its first access to the plan directory
Start(p, variant, cfg, force) ==
    /\ proc[p].pc \in {"idle", "done"}
    /\ hist.nruns < hist.limit
    /\ variant = "full" => ~force
    /\ LET config == Config(cfg)
           today == clock
           weekday_name == get_weekday_name(today, config.weekday_names)
           phase == IF variant = "min" THEN choose_phase(today, config.phases) ELSE Raised
           target == [date |-> clock,
                      label |-> IF config.weekday_names = <<>>
                                THEN DEFAULT_WEEKDAY_NAMES[Weekday(clock) + 1]
                                ELSE config.weekday_names[Weekday(clock) + 1]]
           locals == [IdleProc EXCEPT !.variant = variant, !.cfg = cfg, !.force = force,
                                      !.today = today]
       IN /\ proc' = [proc EXCEPT ![p] =
                        IF variant = "min" /\ phase.raised
                        THEN [locals EXCEPT !.pc = "done", !.exit = 1]
                        ELSE [locals EXCEPT !.pc = StepAfter(variant, "start"),
                                            !.weekday_name = weekday_name,
                                            !.phase = phase]]
          /\ hist' = [hist EXCEPT !.nruns = @ + 1,
                                  !.targets = @ \cup {target},
                                  !.run[p] = [NoRun EXCEPT !.n = hist.nruns + 1,
                                                           !.target = target,
                                                           !.existed = PathExists(planDir, target)]]
    /\ UNCHANGED <<scanVars, phaseVars, statsVars, allocVars, planDir, clock>>

\* output_dir.mkdir / plan_dir.mkdir (parents=True, exist_ok=True)
Mkdir(p) ==
    /\ proc[p].pc = "mkdir"
    /\ planDir' = [planDir EXCEPT !.exists = TRUE]
    /\ proc' = [proc EXCEPT ![p].pc = StepAfter(proc[p].variant, "mkdir")]
    /\ hist' = [hist EXCEPT !.run[p] = [Step(p, "mkdir") EXCEPT !.madeDir = TRUE]]
    /\ UNCHANGED <<scanVars, phaseVars, statsVars, allocVars, clock>>

\* output_path.exists() and the early return
CheckExists(p) ==
    /\ proc[p].pc = "check"
    /\ LET path == OutputPath(proc[p].today, proc[p].weekday_name)
           exists == PathExists(planDir, path)
       IN /\ proc' = [proc EXCEPT ![p] =
                        IF SkipsExisting(proc[p].variant, exists, proc[p].force)
                        THEN Exit(p, 0)
                        ELSE [proc[p] EXCEPT !.pc = StepAfter(proc[p].variant, "check")]]
          /\ hist' = [hist EXCEPT !.run[p] =
                        [Step(p, "check") EXCEPT !.atCheck = Len(Writes(path))]]
    /\ UNCHANGED <<scanVars, phaseVars, statsVars, allocVars, planDir, clock>>

\* everything between the existence test and the next outside call: the
\* phase, yesterday's file, the due scan and the prompt (full variant);
\* yesterday's file, the blocks and the rendered text (minimal variant)
Gather(p) ==
    /\ proc[p].pc = "gather"
    /\ LET me == proc[p]
           config == Config(me.cfg)
           yesterday_file == find_plan_file_for_date(planDir, me.today - 1)
       IN IF me.variant = "full"
          THEN LET phase == determine_phase(me.today, config.phases)
                   allocation_desc == format_allocation(phase.item.allocation)
                   yesterday_stats == parse_yesterday_stats(yesterday_file)
                   due_counts == scan_due_error_reviews(errorRoot, config.error_intervals,
                                                        me.today)
                   prompt == build_prompt(me.today, me.weekday_name, phase.item,
                                          allocation_desc, yesterday_stats, due_counts,
                                          config.milestones)
               IN proc' = [proc EXCEPT ![p] =
                             IF phase.raised THEN Exit(p, 1)
                             ELSE [me EXCEPT !.pc = StepAfter("full", "gather"),
                                             !.phase = phase, !.prompt = prompt]]
          ELSE LET stats == parse_yesterday_stats_min(yesterday_file, CARRY_LIMIT_DEFAULT)
                   blocks == build_plan_blocks(me.phase.item.allocation,
                                               config.subject_templates)
                   content == render_markdown(me.today, me.weekday_name, me.phase.item,
                                              stats.carry, stats.completion_rate, blocks)
               IN proc' = [proc EXCEPT ![p] =
                             [me EXCEPT !.pc = StepAfter("min", "gather"),
                                        !.content = content]]
    /\ LET prior == find_plan_file_for_date(planDir, proc[p].today - 1)
           stats == parse_yesterday_stats_min(prior, CARRY_LIMIT_DEFAULT)
       IN hist' = [hist EXCEPT !.run[p] =
                     IF proc[p].variant = "min"
                     THEN [Step(p, "gather") EXCEPT !.prior = prior,
                                                    !.carry = stats.carry,
                                                    !.rate = stats.completion_rate]
                     ELSE [Step(p, "gather") EXCEPT !.prior = prior]]
    /\ UNCHANGED <<scanVars, phaseVars, statsVars, allocVars, planDir, clock>>

\* call_ai: one request; an exception or an empty text ends the run
CallAI(p, response) ==
    /\ proc[p].pc = "call"
    /\ LET content == StripText(response.text)
           failed == response.raises \/ content = <<>>
       IN /\ proc' = [proc EXCEPT ![p] =
                        IF failed THEN Exit(p, 1)
                        ELSE [proc[p] EXCEPT !.pc = StepAfter(proc[p].variant, "call"),
                                             !.content = content]]
          /\ hist' = [hist EXCEPT !.run[p] =
                        [Step(p, "call") EXCEPT !.calls = @ + 1, !.aiFailed = failed]]
    /\ UNCHANGED <<scanVars, phaseVars, statsVars, allocVars, planDir, clock>>

\* the text that is written: content.rstrip() + "\n" (full), content (minimal)
Written(variant, content) ==
    IF variant = "full" THEN RStripLines(content) ELSE content

\* output_path.write_text and return 0
Write(p) ==
    /\ proc[p].pc = "write"
    /\ LET path == OutputPath(proc[p].today, proc[p].weekday_name)
           text == Written(proc[p].variant, proc[p].content)
           record == [run |-> hist.run[p].n, force |-> proc[p].force,
                      atCheck |-> hist.run[p].atCheck, text |-> text]
       IN /\ planDir' = WriteText(planDir, path, text)
          /\ hist' = [hist EXCEPT
                        !.run[p] = [Step(p, "write") EXCEPT !.wrote = TRUE],
                        !.w = [q \in DOMAIN hist.w \cup {path} |->
                                  IF q = path THEN Append(Writes(path), record)
                                  ELSE hist.w[q]]]
    /\ proc' = [proc EXCEPT ![p] = Exit(p, 0)]
    /\ UNCHANGED <<scanVars, phaseVars, statsVars, allocVars, clock>>

\* midnight, between runs
Tick ==
    /\ clock < Day0 + hist.ticks
    /\ \A p \in Procs : proc[p].pc \in {"idle", "done"}
    /\ clock' = clock + 1
    /\ UNCHANGED <<scanVars, phaseVars, statsVars, allocVars, planDir, proc, hist>>

RunStep ==
    \/ \E p \in Procs, variant \in {"full", "min"}, cfg \in SampleConfigs,
          force \in BOOLEAN : Start(p, variant, cfg, force)
    \/ \E p \in Procs : Mkdir(p)
    \/ \E p \in Procs : CheckExists(p)
    \/ \E p \in Procs : Gather(p)
    \/ \E p \in Procs, response \in SampleResponses : CallAI(p, response)
    \/ \E p \in Procs : Write(p)

NextRun == RunStep \/ Tick

InitRun(procs, limit, ticks) ==
    /\ scanOut = NoScan
    /\ errorRoot = SampleRoot
    /\ PhaseIdle /\ StatsIdle /\ AllocIdle
    /\ planDir = NoPlanDir
    /\ clock = Day0
    /\ proc = [p \in procs |-> IdleProc]
    /\ hist = [limit |-> limit, ticks |-> ticks, nruns |-> 0,
               run |-> [p \in procs |-> NoRun], w |-> <<>>, targets |-> {}]

\* one invocation at a time
InitSeq == InitRun({1}, MaxRuns, MaxTicks)
SpecSeq == InitSeq /\ [][NextRun]_vars

\* two processes whose invocations interleave within one day
InitConc == InitRun({1, 2}, MaxConcRuns, 0)
SpecConc == InitConc /\ [][RunStep]_vars

Ran(p) == hist.run[p].n > 0
Finished(p) == Ran(p) /\ proc[p].pc = "done"

\* the text on disk is the text of the last write to the path
DiskIsLastWrite ==
    /\ DOMAIN planDir.files = DOMAIN hist.w
    /\ \A path \in DOMAIN hist.w :
          /\ hist.w[path] # <<>>
          /\ planDir.files[path] = hist.w[path][Len(hist.w[path])].text

\* C4: in sequential runs the artifact's text changes only in the run that
\* creates it and in forced runs: every write after the first is forced, a
\* non-forced run that finds the file writes nothing, the text on disk is
\* always that of the last write, and a forced (or first) run that returns 0
\* leaves its newly assembled text on disk.
C4_WriteOnceUnlessForced ==
    /\ DiskIsLastWrite
    /\ \A path \in DOMAIN hist.w :
          \A i \in 2..Len(hist.w[path]) : hist.w[path][i].force
    /\ \A p \in Procs :
          /\ (Ran(p) /\ hist.run[p].existed /\ ~proc[p].force) => ~hist.run[p].wrote
          /\ (Finished(p) /\ proc[p].exit = 0
                /\ (proc[p].force \/ ~hist.run[p].existed)) =>
                /\ hist.run[p].wrote
                /\ planDir.files[hist.run[p].target]
                     = Written(proc[p].variant, proc[p].content)

\* a second, non-forced run found the artifact and left the text of the
\* first run in place
C4_Witness ==
    \E p \in Procs :
        /\ Finished(p) /\ proc[p].exit = 0
        /\ hist.run[p].n = 2 /\ hist.run[p].existed /\ ~proc[p].force
        /\ ~hist.run[p].wrote
        /\ Len(hist.w[hist.run[p].target]) = 1
        /\ hist.w[hist.run[p].target][1].run = 1

\* C5: a run that starts with the artifact for its date present and without
\* force ends with status 0, whatever its configuration holds.
C5_ExistingArtifactCleanSkip ==
    \A p \in Procs :
        (Finished(p) /\ hist.run[p].existed /\ ~proc[p].force) => proc[p].exit = 0

\* C6: a full-variant run whose text-generation call raises or gives only
\* white space made exactly one call, wrote nothing, did not create the plan
\* directory and ended with a non-zero status; no run calls twice, and a
\* full-variant run writes only after its call has given the whole text.
C6_FailedCallWritesNothing ==
    \A p \in Procs :
        /\ hist.run[p].calls <= 1
        /\ (Ran(p) /\ hist.run[p].aiFailed) =>
              /\ proc[p].variant = "full"
              /\ hist.run[p].calls = 1
              /\ ~hist.run[p].wrote
              /\ ~hist.run[p].madeDir
              /\ proc[p].pc = "done"
              /\ proc[p].exit # 0
        /\ (Ran(p) /\ proc[p].variant = "full" /\ hist.run[p].wrote) =>
              /\ hist.run[p].trace = <<"check", "gather", "call", "mkdir", "write">>
              /\ proc[p].content # <<>>
              /\ hist.run[p].calls = 1

\* the first run of all failed in its call: no plan directory exists
C6_Witness ==
    \E p \in Procs :
        /\ Finished(p) /\ hist.run[p].aiFailed
        /\ hist.nruns = 1
        /\ ~planDir.exists
        /\ proc[p].exit = 1

ArtifactsOf(day) == GlobDate(planDir, day)
LabelsRunFor(day) == {t.label : t \in {u \in hist.targets : u.date = day}}
RunDays == {t.date : t \in hist.targets}

\* C7 as stated: at most one artifact per calendar date, whatever the
\* weekday names of the runs.
C7_OneArtifactPerDate ==
    \A day \in RunDays : Cardinality(ArtifactsOf(day)) <= 1

\* C7 as amended: the artifacts of a date carry only weekday labels that a
\* run for that date was configured with, so a date has at most one
\* artifact as long as its runs agree on the label.
C7_OneArtifactPerDateAndLabel ==
    /\ DOMAIN planDir.files \subseteq hist.targets
    /\ \A day \in RunDays :
          /\ {path.label : path \in ArtifactsOf(day)} \subseteq LabelsRunFor(day)
          /\ Cardinality(LabelsRunFor(day)) <= 1 => Cardinality(ArtifactsOf(day)) <= 1

\* two runs with configured weekday names wrote the one artifact of the day
C7_Witness ==
    \E path \in DOMAIN hist.w :
        /\ Len(hist.w[path]) = 2
        /\ path.label \in Range(SampleWeekdayNames)
        /\ Cardinality(ArtifactsOf(path.date)) = 1

\* C8: every non-forced write was made by an invocation whose existence
\* check came before the first write to the path (so the file is written
\* twice only when both checks precede the first write); an invocation
\* whose check came after a write ends with status 0 without writing, the
\* text on disk staying that of the last write; and a full-variant writer
\* made its call between its check and its write.
C8_CheckAfterWriteNeverWrites ==
    /\ DiskIsLastWrite
    /\ \A path \in DOMAIN hist.w :
          \A i \in 1..Len(hist.w[path]) :
              ~hist.w[path][i].force => hist.w[path][i].atCheck = 0
    /\ \A p \in Procs :
          /\ (Ran(p) /\ ~proc[p].force /\ hist.run[p].atCheck >= 1) =>
                /\ ~hist.run[p].wrote
                /\ proc[p].pc = "done" /\ proc[p].exit = 0
          /\ (Ran(p) /\ proc[p].variant = "full" /\ hist.run[p].wrote) =>
                hist.run[p].trace = <<"check", "gather", "call", "mkdir", "write">>

\* an invocation started while the file was absent, checked after the other
\* invocation's write and skipped
C8_Witness ==
    \E p \in Procs :
        /\ Finished(p) /\ ~proc[p].force
        /\ ~hist.run[p].existed
        /\ hist.run[p].atCheck = 1
        /\ ~hist.run[p].wrote
        /\ \E q \in Procs \ {p} : hist.run[q].wrote /\ hist.run[q].target = hist.run[p].target

DueCount(p, c) ==
    Cardinality(DueFiles(errorRoot, c, Config(proc[p].cfg).error_intervals, proc[p].today))

NoPriorData(p) == GlobDate(planDir, proc[p].today - 1) = {}

\* C9 as stated: the rendered plan of the minimal variant holds a review
\* line for every category with a positive due count, and the completion
\* rate line.
C9_RenderHasReviewLines ==
    \A p \in Procs :
        (proc[p].variant = "min" /\ proc[p].pc = "write") =>
            /\ \A c \in Chapters :
                  DueCount(p, c) > 0 =>
                      ReviewLine(c, DueCount(p, c)) \in Range(proc[p].content)
            /\ NoPriorData(p) =>
                  Plain("- yesterday's completion rate: 0.0%") \in Range(proc[p].content)

\* C9 as amended: the prompt of the full variant holds a review line for
\* every category with a positive due count and the completion rate line
\* (0.0% without prior data); the render of the minimal variant holds the
\* completion rate line (0.0% without prior data) and no review line.
C9_PromptHasReviewLines ==
    \A p \in Procs :
        /\ (proc[p].variant = "full" /\ proc[p].pc = "call") =>
              /\ \A c \in Chapters :
                    IF DueCount(p, c) > 0
                    THEN ReviewLine(c, DueCount(p, c)) \in Range(proc[p].prompt)
                    ELSE \A n \in 0..3 : ReviewLine(c, n) \notin Range(proc[p].prompt)
              /\ NoPriorData(p) =>
                    Plain("- completion rate: 0.0%") \in Range(proc[p].prompt)
        /\ (proc[p].variant = "min" /\ proc[p].pc = "write") =>
              /\ \A c \in Chapters, n \in 0..3 :
                    ReviewLine(c, n) \notin Range(proc[p].content)
              /\ NoPriorData(p) =>
                    Plain("- yesterday's completion rate: 0.0%") \in Range(proc[p].content)

\* a prompt built without prior data on a day with one due item in
\* "Derivatives"
C9_Witness ==
    \E p \in Procs :
        /\ proc[p].variant = "full" /\ proc[p].pc = "call"
        /\ NoPriorData(p)
        /\ DueCount(p, 1) = 1
        /\ Plain("- Derivatives: 1 items") \in Range(proc[p].prompt)


(***************************************************************************)
(* Carry-over list                                                         *)
(***************************************************************************)
\* the trimmed texts of the unchecked-box lines that have a text, top to
\* bottom
RECURSIVE UncheckedTexts(_)
UncheckedTexts(text) ==
    IF text = <<>> THEN <<>>
    ELSE IF LineMatches(Head(text), TodoMarks) /\ Strip(Head(text).rest) # ""
         THEN <<Strip(Head(text).rest)>> \o UncheckedTexts(Tail(text))
         ELSE UncheckedTexts(Tail(text))

FirstOf(list, n) == SubSeq(list, 1, IF n < Len(list) THEN n ELSE Len(list))

\* the cap build_prompt puts on the unfinished tasks
PROMPT_TASK_CAP == 20

\* C11: for a prior-day text with n non-empty unchecked-task texts and a
\* carry limit L >= 0 the carry-over list is the first min(L, n) of these
\* texts, trimmed, in file order (minimal variant: L = --carry-limit; full
\* variant: the cap of 20 on the list put into the prompt, which shows a
\* placeholder instead when there is no such text).
C11_CarryIsPrefixOfUnchecked ==
    (statsOut.st = "done" /\ statsIn.exists /\ statsOut.limit >= 0) =>
        LET texts == UncheckedTexts(statsIn.text)
            shown == Slice(statsOut.full.unfinished_tasks, PROMPT_TASK_CAP)
        IN /\ statsOut.min.carry = FirstOf(texts, statsOut.limit)
           /\ Len(statsOut.min.carry) <= statsOut.limit
           /\ IF texts = <<>> THEN shown = <<NO_TASK>>
              ELSE shown = FirstOf(texts, PROMPT_TASK_CAP)

(***************************************************************************)
(* Specification SpecAlloc: an allocation mapping is filled item by item   *)
(* (a dict: every key once, in insertion order) and handed once to the     *)
(* time-block allocator.                                                   *)
(***************************************************************************)
MaxItems == 3

SampleKeys == {"math", "review", "english", "competition"}
SampleWeights == {10, 20, 30}
SampleTemplates ==
    {<<>>, [math |-> "calculus drills"], [review |-> "evening recap"]}

InitAlloc == ScanIdle /\ PhaseIdle /\ StatsIdle /\ RunIdle /\ AllocIdle

KeysOf(allocation) == {allocation[i].key : i \in 1..Len(allocation)}

AddItem(key, weight) ==
    /\ allocOut.st = "none"
    /\ Len(allocIn.allocation) < MaxItems
    /\ key \notin KeysOf(allocIn.allocation)
    /\ allocIn' = [allocIn EXCEPT
                      !.allocation = Append(@, [key |-> key, weight |-> weight])]
    /\ UNCHANGED <<scanVars, phaseVars, statsVars, runVars, allocOut>>

BuildBlocks(templates) ==
    /\ allocOut.st = "none"
    /\ allocIn' = [allocIn EXCEPT !.templates = templates]
    /\ allocOut' = [st |-> "done",
                    subjects |-> build_subject_sequence(allocIn.allocation),
                    again |-> build_subject_sequence(allocIn.allocation),
                    blocks |-> build_plan_blocks(allocIn.allocation, templates)]
    /\ UNCHANGED <<scanVars, phaseVars, statsVars, runVars>>

NextAlloc ==
    \/ \E key \in SampleKeys, weight \in SampleWeights : AddItem(key, weight)
    \/ \E templates \in SampleTemplates : BuildBlocks(templates)

SpecAlloc == InitAlloc /\ [][NextAlloc]_vars

\* the subject the round-robin rule gives window i (1-based)
RoundRobin(subjects, i) == subjects[((i - 1) % Len(subjects)) + 1]

\* C12: one block per fixed time window, in window order; every window but
\* the last gets subjects[i mod len(subjects)] of the priority order, the
\* last window gets "review" whenever "review" is in the priority order
\* (whatever its weight) and follows the round-robin rule otherwise.
C12_BlocksRoundRobinReviewLast ==
    allocOut.st = "done" =>
        LET subjects == allocOut.subjects
            blocks == allocOut.blocks
            n == Len(TIME_BLOCKS)
        IN /\ Len(blocks) = n
           /\ \A i \in 1..n :
                 /\ blocks[i].start = TIME_BLOCKS[i][1]
                 /\ blocks[i].end = TIME_BLOCKS[i][2]
                 /\ LET subject == IF i = n /\ \E j \in 1..Len(subjects) : subjects[j] = "review"
                                   THEN "review"
                                   ELSE RoundRobin(subjects, i)
                    IN /\ blocks[i].label = SUBJECT_LABEL(subject)
                       /\ blocks[i].emoji = SUBJECT_EMOJI(subject)

\* review is second of three in the priority order, the round-robin rule
\* would give the last window another subject, and the last window is the
\* review
C12_Witness ==
    /\ allocOut.st = "done"
    /\ Len(allocOut.subjects) = 3
    /\ allocOut.subjects[2] = "review"
    /\ RoundRobin(allocOut.subjects, Len(TIME_BLOCKS)) # "review"
    /\ allocOut.blocks[Len(TIME_BLOCKS)].label = SUBJECT_LABEL("review")
    /\ allocOut.blocks[1].label = SUBJECT_LABEL(allocOut.subjects[1])

\* where the key stands in the allocation, and its weight
PosOf(allocation, key) == CHOOSE i \in 1..Len(allocation) : allocation[i].key = key
WeightOf(allocation, key) == allocation[PosOf(allocation, key)].weight

DEFAULT_SUBJECTS == <<"math", "major", "english", "review">>

\* C13: build_subject_sequence returns the allocation keys of the label
\* table, each once, by weight descending with equal weights in their
\* configuration order; without such a key it returns the default list
\* [math, major, english, review]; the result is never empty and a second
\* call on the same input gives the same list.
C13_SubjectsByWeightStable ==
    allocOut.st = "done" =>
        LET a == allocIn.allocation
            subjects == allocOut.subjects
            known == KeysOf(a) \cap SUBJECT_LABEL_KEYS
        IN /\ subjects # <<>>
           /\ allocOut.again = subjects
           /\ IF known = {} THEN subjects = DEFAULT_SUBJECTS
              ELSE /\ {subjects[i] : i \in 1..Len(subjects)} = known
                   /\ Len(subjects) = Cardinality(known)
                   /\ \A i, j \in 1..Len(subjects) :
                         i < j =>
                            \/ WeightOf(a, subjects[i]) > WeightOf(a, subjects[j])
                            \/ /\ WeightOf(a, subjects[i]) = WeightOf(a, subjects[j])
                               /\ PosOf(a, subjects[i]) < PosOf(a, subjects[j])

\* two known keys of equal weight come out in configuration order behind a
\* heavier key configured after them, and a key outside the table is dropped
C13_Witness ==
    /\ allocOut.st = "done"
    /\ Len(allocIn.allocation) = 3
    /\ Len(allocOut.subjects) = 2
    /\ WeightOf(allocIn.allocation, allocOut.subjects[1])
          = WeightOf(allocIn.allocation, allocOut.subjects[2])
    /\ allocIn.allocation[3].key = "competition"
    /\ allocIn.allocation[3].weight > allocIn.allocation[1].weight

\* no key of the table at all: the default list
C13_WitnessDefault ==
    /\ allocOut.st = "done"
    /\ allocIn.allocation # <<>>
    /\ allocOut.subjects = DEFAULT_SUBJECTS

(***************************************************************************)
(* Malformed entries of the error-item tree                                *)
(***************************************************************************)
\* eight digits in a row at position i, read as YYYYMMDD
DigitRunAt(s, i) == i + 7 <= Len(s) /\ \A j \in 0..7 : s[i + j] \in Digits
YearAt(s, i) == 100 * Num2(s, i) + Num2(s, i + 2)
MonthAt(s, i) == Num2(s, i + 4)
DayAt(s, i) == Num2(s, i + 6)

\* the valid calendar dates a name embeds, wherever they stand
EmbeddedDates(name) ==
    { ToOrdinal(YearAt(name, i), MonthAt(name, i), DayAt(name, i)) :
        i \in {k \in 1..Len(name) :
                 /\ DigitRunAt(name, k)
                 /\ ValidDate(YearAt(name, k), MonthAt(name, k), DayAt(name, k))} }

SeverityOf(name) ==
    IF \E k \in HIGH_SEVERITY_KEYWORDS : Contains(Lower(name), k) THEN "high" ELSE "low"

\* the first place where "20" and six digits stand (none: 0)
StampsOf(name) == {i \in 1..Len(name) : DigitRunAt(name, i) /\ name[i] = "2" /\ name[i + 1] = "0"}
FirstStamp(name) ==
    IF StampsOf(name) = {} THEN 0
    ELSE CHOOSE i \in StampsOf(name) : \A k \in StampsOf(name) : i <= k

\* the entry is looked up in the intervals: its first stamp is a calendar
\* date on or before today
Evaluated(name, today) ==
    LET i == FirstStamp(name)
    IN /\ i # 0
       /\ ValidDate(YearAt(name, i), MonthAt(name, i), DayAt(name, i))
       /\ ToOrdinal(YearAt(name, i), MonthAt(name, i), DayAt(name, i)) <= today

AgeOf(name, today) ==
    LET i == FirstStamp(name)
    IN today - ToOrdinal(YearAt(name, i), MonthAt(name, i), DayAt(name, i))

\* C14 as stated: an entry counts exactly when its name embeds a valid
\* date on or before the target date whose age is in the intervals of its
\* severity; names without an 8-digit date, with an invalid date or with a
\* later date count nowhere; a missing root gives the empty summary.
C14_EveryEmbeddedDateEvaluated ==
    scanOut.st = "done" =>
        /\ ~scanOut.root.exists => scanOut.counts = <<>>
        /\ \A c \in Chapters :
              CountOf(scanOut.counts, c) =
                 Cardinality({e \in scanOut.root.entries :
                    /\ e.cat = c /\ e.isFile
                    /\ \E d \in EmbeddedDates(e.name) :
                          /\ d <= scanOut.today
                          /\ (scanOut.today - d) \in CfgGet(scanOut.cfg, SeverityOf(e.name))})

\* C14 (amended): the scan ends with a summary for every tree; an entry
\* counts exactly when the first "20" + six digits in its name is a valid
\* calendar date on or before the target date whose age is in the
\* intervals of its severity.  A name without such a stamp, with a first
\* stamp that is no calendar date (even when a valid date follows it) or
\* with a first stamp after the target date counts nowhere; a missing root
\* gives the empty summary.
C14_FirstStampDecides ==
    scanOut.st = "done" =>
        /\ ~scanOut.root.exists => scanOut.counts = <<>>
        /\ \A c \in Chapters :
              CountOf(scanOut.counts, c) =
                 Cardinality({e \in scanOut.root.entries :
                    /\ e.cat = c /\ e.isFile
                    /\ Evaluated(e.name, scanOut.today)
                    /\ AgeOf(e.name, scanOut.today) \in CfgGet(scanOut.cfg, SeverityOf(e.name))})
        /\ (\A e \in scanOut.root.entries : ~Evaluated(e.name, scanOut.today))
              => scanOut.counts = <<>>

\* a scan over a name dated on the target date, which is counted, and a name
\* whose first stamp is no calendar date, which is not counted although a
\* valid date of a due age follows in it
C14_Witness ==
    /\ scanOut.st = "done"
    /\ \E e \in scanOut.root.entries :
          /\ e.isFile /\ Evaluated(e.name, scanOut.today)
          /\ AgeOf(e.name, scanOut.today) = 0
          /\ CountOf(scanOut.counts, e.cat) = 1
    /\ \E e \in scanOut.root.entries :
          /\ e.isFile /\ ~Evaluated(e.name, scanOut.today)
          /\ FirstStamp(e.name) # 0
          /\ \E d \in EmbeddedDates(e.name) :
                (scanOut.today - d) \in CfgGet(scanOut.cfg, SeverityOf(e.name))

(***************************************************************************)
(* Day-to-day links and carry-over of the minimal variant                  *)
(***************************************************************************)
\* the file name stem under which a run for the day with the configured
\* weekday names persists its artifact
ArtifactStem(day, weekday_names) ==
    IsoFormat(day) \o " " \o (IF weekday_names = <<>>
                              THEN DEFAULT_WEEKDAY_NAMES[Weekday(day) + 1]
                              ELSE weekday_names[Weekday(day) + 1])

Rendered(p) == Ran(p) /\ proc[p].variant = "min" /\ proc[p].content # <<>>

\* C15: the previous-day and next-day link targets a minimal run for day D
\* with weekday names W writes are the stems under which runs for D-1 and
\* D+1 with the same W persist their artifacts, and the prior-day lookup of
\* the run finds the artifact persisted for the day before.
C15_LinksNameNeighbourArtifacts ==
    \A p \in Procs :
        Rendered(p) =>
            LET D == proc[p].today
                W == Config(proc[p].cfg).weekday_names
                content == proc[p].content
                before == [date |-> D - 1,
                           label |-> IF W = <<>> THEN DEFAULT_WEEKDAY_NAMES[Weekday(D - 1) + 1]
                                     ELSE W[Weekday(D - 1) + 1]]
            IN /\ content[Len(content) - 1] =
                     Plain("- previous day: [[" \o ArtifactStem(D - 1, W) \o "]]")
               /\ content[Len(content)] =
                     Plain("- next day: [[" \o ArtifactStem(D + 1, W) \o "]]")
               /\ (planDir.exists /\ before \in DOMAIN planDir.files) =>
                     hist.run[p].prior = [exists |-> TRUE, text |-> planDir.files[before]]

\* the texts of the list without the placeholder of an empty carry-over list
RECURSIVE Genuine(_)
Genuine(texts) ==
    IF texts = <<>> THEN <<>>
    ELSE IF Head(texts) = NO_CARRY_TASK THEN Genuine(Tail(texts))
         ELSE <<Head(texts)>> \o Genuine(Tail(texts))

\* C16: when a minimal run reads the artifact of the day before, its
\* carry-over list holds unfinished tasks of that day only: the placeholder
\* of an empty carry-over list is not among them, is not counted as a
\* pending task and does not lower the completion rate.
C16_PlaceholderNeverCarried ==
    \A p \in Procs :
        (Rendered(p) /\ hist.run[p].prior.exists) =>
            LET text == hist.run[p].prior.text
                tasks == Genuine(UncheckedTexts(text))
                done == MatchingLines(text, DoneMarks)
            IN /\ \A i \in 1..Len(hist.run[p].carry) :
                     /\ hist.run[p].carry[i] # NO_CARRY_TASK
                     /\ \E j \in 1..Len(tasks) : tasks[j] = hist.run[p].carry[i]
               /\ proc[p].content[19] # Todo(NO_CARRY_TASK)
               /\ IF done + Len(tasks) = 0 THEN hist.run[p].rate.num = 0
                  ELSE SameRate(hist.run[p].rate, done, done + Len(tasks))

====
